---- MODULE Spec2Model ----
(***************************************************************************)
(* Model of monolithe/lib/parsers.py: the Swagger discovery engine.        *)
(* Python strings that the code takes apart (paths, names, packages) are   *)
(* sequences of one-character strings, so that split, rsplit and the `in`  *)
(* substring test are computed as Python computes them.                    *)
(***************************************************************************)
EXTENDS Integers, Sequences, FiniteSets, Bags, TLC

(***************************************************************************)
(* String constants of the module                                          *)
(***************************************************************************)
ENTRY_POINT == <<"/", "a", "p", "i", "-", "d", "o", "c", "s">>

SCHEMA_FILEPATH == <<"/", "s", "c", "h", "e", "m", "a">>

STR_METADATA == <<"M", "e", "t", "a", "d", "a", "t", "a">>

STR_GLOBALMETADATA == <<"G", "l", "o", "b", "a", "l">> \o STR_METADATA

STR_AGGREGATEMETADATA == <<"A", "g", "g", "r", "e", "g", "a", "t", "e">> \o STR_METADATA

SUB_AGGREGATE == <<"/", "a", "g", "g", "r", "e", "g", "a", "t", "e", "m", "e", "t", "a", "d", "a", "t", "a", "s">>

SUB_GLOBAL == <<"/", "g", "l", "o", "b", "a", "l", "m", "e", "t", "a", "d", "a", "t", "a", "s">>

NoStr == <<>>

(***************************************************************************)
(* Python string primitives                                                *)
(***************************************************************************)
\* first index j >= i at which sub occurs in s, 0 when there is none
RECURSIVE FindFrom(_, _, _)
FindFrom(s, sub, i) ==
    IF i + Len(sub) - 1 > Len(s) THEN 0
    ELSE IF SubSeq(s, i, i + Len(sub) - 1) = sub THEN i
    ELSE FindFrom(s, sub, i + 1)

\* `sub in s`
Contains(s, sub) == FindFrom(s, sub, 1) # 0

\* s.split(sep) for a non-empty sep: left to right, non-overlapping
RECURSIVE PySplit(_, _)
PySplit(s, sep) ==
    LET j == FindFrom(s, sep, 1)
    IN  IF j = 0 THEN <<s>>
        ELSE <<SubSeq(s, 1, j - 1)>> \o PySplit(SubSeq(s, j + Len(sep), Len(s)), sep)

\* last index of character c in s, 0 when there is none
RECURSIVE LastIndex(_, _, _)
LastIndex(s, c, i) ==
    IF i = 0 THEN 0
    ELSE IF s[i] = c THEN i
    ELSE LastIndex(s, c, i - 1)

\* s.rsplit('/', 1)
PyRSplit1(s) ==
    LET j == LastIndex(s, "/", Len(s))
    IN  IF j = 0 THEN <<s>>
        ELSE <<SubSeq(s, 1, j - 1), SubSeq(s, j + 1, Len(s))>>

\* str(v).replace(".", "_")
ReplaceDots(v) == [i \in 1..Len(v) |-> IF v[i] = "." THEN "_" ELSE v[i]]

(***************************************************************************)
(* Bounds and the inputs the model draws from                              *)
(***************************************************************************)
\* longest `apis` list of a root document
MaxApis == 2

\* number of grab_all calls made on one parser object
MaxRuns == 2

\* longest `apis` list of the Metadata document given to the split
MaxK == 3

\* number of later mutations of the documents the split has produced
MaxMutations == 2

None == [isNone |-> TRUE, v |-> NoStr]

Some(s) == [isNone |-> FALSE, v |-> s]

URL_BASE == <<"h", "/">>

ROOT_PATH == <<"/", "x">>

VERSION == <<"3", ".", "0">>

VERSION_NEXT == <<"4", ".", "0">>

PKG_A == <<"/", "a">>

PKG_B == <<"/", "b">>

STR_FOO == <<"f", "o", "o">>

STR_GONE == <<"g", "o", "n", "e">>

STR_RAW == <<"r", "a", "w">>

P_FOO_A == PKG_A \o <<"/">> \o STR_FOO

P_FOO_B == PKG_B \o <<"/">> \o STR_FOO

P_META_A == PKG_A \o <<"/">> \o STR_METADATA

P_GLOBAL_B == PKG_B \o <<"/">> \o STR_GLOBALMETADATA

P_AGGR_A == PKG_A \o <<"/">> \o STR_AGGREGATEMETADATA

P_GONE_A == PKG_A \o <<"/">> \o STR_GONE

P_RAW_B == PKG_B \o <<"/">> \o STR_METADATA

\* the ApiEntry paths a root document may list
ApiPaths == {P_FOO_A, P_FOO_B, P_META_A, P_GLOBAL_B, P_AGGR_A, P_GONE_A, P_RAW_B}

A_AGGR == [path |-> <<"/", "m">> \o SUB_AGGREGATE, nickname |-> "getAggregate"]

A_GLOB == [path |-> <<"/", "m">> \o SUB_GLOBAL, nickname |-> "getGlobal"]

A_META == [path |-> <<"/", "m", "e", "t", "a", "d", "a", "t", "a", "s">>, nickname |-> "getMetadata"]

A_FOOS == [path |-> <<"/", "f", "o", "o", "s">>, nickname |-> "getFoos"]

\* the resource documents behind the ApiEntry paths: what the server or the
\* file system holds.  P_GONE_A is absent; P_RAW_B is a document named
\* Metadata that has no `Metadata` model.
Resource(p) ==
    CASE p = P_FOO_A -> [status |-> "ok",
                         doc |-> [models |-> [Foo |-> [id |-> STR_FOO]], apis |-> <<A_FOOS>>]]
      [] p = P_FOO_B -> [status |-> "ok",
                         doc |-> [models |-> [Foo |-> [id |-> STR_FOO]], apis |-> <<A_FOOS>>]]
      [] p = P_META_A -> [status |-> "ok",
                          doc |-> [models |-> [Metadata |-> [id |-> STR_METADATA]],
                                   apis |-> <<A_GLOB, A_META, A_AGGR>>]]
      [] p = P_GLOBAL_B -> [status |-> "ok",
                            doc |-> [models |-> [GlobalMetadata |-> [id |-> STR_GLOBALMETADATA]],
                                     apis |-> <<A_GLOB>>]]
      [] p = P_AGGR_A -> [status |-> "ok",
                          doc |-> [models |-> [AggregateMetadata |-> [id |-> STR_AGGREGATEMETADATA]],
                                   apis |-> <<A_AGGR>>]]
      [] p = P_RAW_B -> [status |-> "ok",
                         doc |-> [models |-> [Raw |-> [id |-> STR_RAW]], apis |-> <<A_META>>]]
      [] OTHER -> [status |-> "absent", doc |-> [models |-> [Foo |-> [id |-> NoStr]], apis |-> <<>>]]

\* sequences over S of length at most n
SeqUpTo(S, n) == UNION {[1..k -> S] : k \in 0..n}

\* a root document: a dict in which `apis` and `apiVersion` may be missing
RootDocs ==
    {[has_apis |-> TRUE, has_apiVersion |-> TRUE, apis |-> a, apiVersion |-> VERSION] :
        a \in SeqUpTo(ApiPaths, MaxApis)}
    \cup {[has_apis |-> FALSE, has_apiVersion |-> TRUE, apis |-> <<>>, apiVersion |-> VERSION],
          [has_apis |-> TRUE, has_apiVersion |-> FALSE, apis |-> <<P_FOO_A>>, apiVersion |-> NoStr],
          [has_apis |-> FALSE, has_apiVersion |-> FALSE, apis |-> <<>>, apiVersion |-> NoStr]}

EmptyRoot == [has_apis |-> FALSE, has_apiVersion |-> FALSE, apis |-> <<>>, apiVersion |-> NoStr]

\* what the root locator answers: a document, nothing (HTTP status other
\* than 200, missing file) or a body that is not JSON
RootAnswers ==
    {[status |-> "ok", doc |-> d] : d \in RootDocs}
    \cup {[status |-> "absent", doc |-> EmptyRoot], [status |-> "unparsable", doc |-> EmptyRoot]}

\* the arguments given to SwaggerParserFactory.create
CreateArgs ==
    {[url |-> u, path |-> p, apiversion |-> v] :
        u \in {None, Some(URL_BASE)}, p \in {None, Some(ROOT_PATH)},
        v \in {None, Some(NoStr), Some(VERSION)}}

(***************************************************************************)
(* Transports: SwaggerURLParser and SwaggerFileParser                      *)
(***************************************************************************)
NoParser ==
    [kind |-> "none", url |-> None, path |-> NoStr, apiversion |-> None,
     base_path |-> NoStr, schema_root |-> NoStr, extension |-> NoStr]

\* '%s' % url, where url may be None
StrOf(o) == IF o.isNone THEN <<"N", "o", "n", "e">> ELSE o.v

\* SwaggerURLParser.__init__, past the apiversion test
SwaggerURLParser(url, apiversion) ==
    LET base == StrOf(url) \o <<"V">> \o ReplaceDots(StrOf(apiversion))
    IN  [kind |-> "url", url |-> url, path |-> NoStr, apiversion |-> apiversion,
         base_path |-> base,
         schema_root |-> base \o SCHEMA_FILEPATH \o ENTRY_POINT,
         extension |-> NoStr]

\* SwaggerFileParser.__init__
SwaggerFileParser(path, apiversion) ==
    [kind |-> "file", url |-> None, path |-> path, apiversion |-> apiversion,
     base_path |-> NoStr,
     schema_root |-> path \o ENTRY_POINT \o NoStr,
     extension |-> NoStr]

\* path_for_swagger_model of either transport
PathForSwaggerModel(prs, swagger_filepath) ==
    IF prs.kind = "url"
    THEN prs.base_path \o SCHEMA_FILEPATH \o swagger_filepath
    ELSE prs.path \o swagger_filepath \o prs.extension

\* get_information of either transport: the list it returns, or no list
\* when the [1] subscript raises IndexError
GetInformation(prs, path) ==
    LET marker == IF prs.kind = "url" THEN SCHEMA_FILEPATH ELSE prs.path
        parts == PySplit(path, marker)
    IN  IF Len(parts) < 2 THEN [ok |-> FALSE, val |-> <<>>]
        ELSE [ok |-> TRUE, val |-> PyRSplit1(parts[2])]

\* what a locator computed by path_for_swagger_model leads to
Lookup(prs, path) ==
    IF prs.kind = "url" /\ prs.url.isNone THEN Resource(NoStr)
    ELSE IF \E p \in ApiPaths : PathForSwaggerModel(prs, p) = path
         THEN Resource(CHOOSE p \in ApiPaths : PathForSwaggerModel(prs, p) = path)
         ELSE Resource(NoStr)

\* get_swagger_model of either transport: the JSON document, or an error
GetSwaggerModel(prs, path, resource_name) ==
    LET r == Lookup(prs, path)
    IN  IF r.status = "ok" THEN [ok |-> TRUE, doc |-> r.doc, err |-> "none"]
        ELSE [ok |-> FALSE, doc |-> r.doc, err |-> "RetrievalError"]

(***************************************************************************)
(* _grab_resource on values: the Metadata split                            *)
(***************************************************************************)
\* d['package'] = package
SetPackage(d, package) ==
    [k \in DOMAIN d \cup {"package"} |-> IF k = "package" THEN package ELSE d[k]]

(***************************************************************************)
(* The object graph of a document.  dicts and lists are cells of a heap,   *)
(* a sequence in which an address is an index; a document parsed from JSON *)
(* is a doc cell, a list cell, one cell per list entry, a models cell and  *)
(* the cell of the Metadata model.                                         *)
(***************************************************************************)
EntryCell(path, nickname) == [t |-> "entry", path |-> path, nickname |-> nickname]

ListCell(items) == [t |-> "list", items |-> items]

ModelCell(id) == [t |-> "model", id |-> id]

ModelsCell(metadata) == [t |-> "models", Metadata |-> metadata]

DocCell(apis, mods, package) == [t |-> "doc", apis |-> apis, models |-> mods, package |-> package]

\* json.load / response.json(): a fresh object graph for a document value
Load(h, doc) ==
    LET n == Len(h)
        k == Len(doc.apis)
        entries == [i \in 1..k |-> EntryCell(doc.apis[i].path, doc.apis[i].nickname)]
        package == IF "package" \in DOMAIN doc THEN Some(doc.package) ELSE None
    IN  [heap |-> h \o entries
                   \o <<ListCell([i \in 1..k |-> n + i]),
                        ModelCell(doc.models.Metadata.id),
                        ModelsCell(n + k + 2),
                        DocCell(n + k + 1, n + k + 3, package)>>,
         addr |-> n + k + 4]

\* the value of the document at address d
Val(h, d) ==
    LET items == h[h[d].apis].items
        apis == [i \in 1..Len(items) |-> [path |-> h[items[i]].path, nickname |-> h[items[i]].nickname]]
        mods == [Metadata |-> [id |-> h[h[h[d].models].Metadata].id]]
    IN  IF h[d].package.isNone
        THEN [models |-> mods, apis |-> apis]
        ELSE [models |-> mods, apis |-> apis, package |-> h[d].package.v]

\* deepcopy(api) of one entry of an `apis` list
DeepCopyEntry(h, e) == [heap |-> Append(h, h[e]), addr |-> Len(h) + 1]

\* copy.copy in place of deepcopy: a new dict over the same lists and dicts
ShallowCopyDoc(h, d) == [heap |-> Append(h, h[d]), addr |-> Len(h) + 1]

\* deepcopy(infos): new cells for the dict, its list, each entry and its models
DeepCopyDoc(h, d) ==
    LET n == Len(h)
        items == h[h[d].apis].items
        k == Len(items)
    IN  [heap |-> h \o [i \in 1..k |-> h[items[i]]]
                   \o <<ListCell([i \in 1..k |-> n + i]),
                        h[h[h[d].models].Metadata],
                        ModelsCell(n + k + 2),
                        [h[d] EXCEPT !.apis = n + k + 1, !.models = n + k + 3]>>,
         addr |-> n + k + 4]

\* d['apis'] = []
HeapResetApis(h, d) == [Append(h, ListCell(<<>>)) EXCEPT ![d].apis = Len(h) + 1]

\* the assignment to ['models']['Metadata']['id'] left out
HeapSetMetadataIdKept(h, d, id) == h

\* d['models']['Metadata']['id'] = id
HeapSetMetadataId(h, d, id) == [h EXCEPT ![h[h[d].models].Metadata].id = id]

\* the entry put at the front of the list
HeapPrepend(h, d, e) == [h EXCEPT ![h[d].apis].items = <<e>> \o @]

\* d['apis'].append(e)
HeapAppend(h, d, e) == [h EXCEPT ![h[d].apis].items = Append(@, e)]

\* d['package'] = package
HeapSetPackage(h, d, package) == [h EXCEPT ![d].package = Some(package)]

\* the two substring tests in the other order
RouteApiGlobalFirst(h, api, docs) ==
    LET c == DeepCopyEntry(h, api)
    IN  IF Contains(h[api].path, SUB_GLOBAL)
        THEN HeapAppend(c.heap, docs.global, c.addr)
        ELSE IF Contains(h[api].path, SUB_AGGREGATE)
             THEN HeapAppend(c.heap, docs.aggregate, c.addr)
             ELSE HeapAppend(c.heap, docs.metadata, c.addr)

\* `if` in place of `elif`: the else belongs to the second test alone
RouteApiTwoIfs(h, api, docs) ==
    LET c == DeepCopyEntry(h, api)
        h1 == IF Contains(h[api].path, SUB_AGGREGATE)
              THEN HeapAppend(c.heap, docs.aggregate, c.addr)
              ELSE c.heap
    IN  IF Contains(h[api].path, SUB_GLOBAL)
        THEN HeapAppend(h1, docs.global, c.addr)
        ELSE HeapAppend(h1, docs.metadata, c.addr)

\* one turn of the loop over infos['apis']: a copy of the entry goes to one list
RouteApi(h, api, docs) ==
    LET c == DeepCopyEntry(h, api)
    IN  IF Contains(h[api].path, SUB_AGGREGATE)
        THEN HeapAppend(c.heap, docs.aggregate, c.addr)
        ELSE IF Contains(h[api].path, SUB_GLOBAL)
             THEN HeapAppend(c.heap, docs.global, c.addr)
             ELSE HeapAppend(c.heap, docs.metadata, c.addr)

\* the loop over infos['apis'], from entry i on
RECURSIVE RouteApis(_, _, _, _)
RouteApis(h, infos, i, docs) ==
    IF i > Len(h[h[infos].apis].items) THEN h
    ELSE RouteApis(RouteApi(h, h[h[infos].apis].items[i], docs), infos, i + 1, docs)

\* the Metadata branch up to its writes to `results`: the heap it leaves and
\* the addresses of the three documents
HeapSplit(h, infos, package) ==
    LET c1 == DeepCopyDoc(h, infos)
        c2 == DeepCopyDoc(c1.heap, infos)
        c3 == DeepCopyDoc(c2.heap, infos)
        docs == [metadata |-> c1.addr, global |-> c2.addr, aggregate |-> c3.addr]
        h1 == HeapResetApis(HeapResetApis(HeapResetApis(c3.heap, docs.metadata), docs.global), docs.aggregate)
        h2 == HeapSetMetadataId(h1, docs.metadata, STR_METADATA)
        h3 == HeapSetMetadataId(h2, docs.global, STR_GLOBALMETADATA)
        h4 == HeapSetMetadataId(h3, docs.aggregate, STR_AGGREGATEMETADATA)
        h5 == RouteApis(h4, infos, 1, docs)
        h6 == HeapSetPackage(HeapSetPackage(HeapSetPackage(h5, docs.metadata, package), docs.global, package),
                             docs.aggregate, package)
    IN  [heap |-> h6, docs |-> docs]

\* the three documents of the Metadata branch, in the order they are stored
MetadataSplit(infos, package) ==
    LET l == Load(<<>>, infos)
        r == HeapSplit(l.heap, l.addr, package)
    IN  <<[key |-> STR_METADATA, doc |-> Val(r.heap, r.docs.metadata)],
          [key |-> STR_GLOBALMETADATA, doc |-> Val(r.heap, r.docs.global)],
          [key |-> STR_AGGREGATEMETADATA, doc |-> Val(r.heap, r.docs.aggregate)]>>

\* the else branch sets the resource name as the package
WritesNameAsPackage(infos, package, resource_name) ==
    IF resource_name = STR_METADATA
    THEN MetadataSplit(infos, package)
    ELSE <<[key |-> resource_name, doc |-> SetPackage(infos, resource_name)]>>

\* the else branch stores under the literal key of the line above it
WritesUnderMetadata(infos, package, resource_name) ==
    IF resource_name = STR_METADATA
    THEN MetadataSplit(infos, package)
    ELSE <<[key |-> STR_METADATA, doc |-> SetPackage(infos, package)]>>

\* the writes _grab_resource makes to `results` once the document is there
Writes(infos, package, resource_name) ==
    IF resource_name = STR_METADATA
    THEN MetadataSplit(infos, package)
    ELSE <<[key |-> resource_name, doc |-> SetPackage(infos, package)]>>

\* _grab_resource up to its first write: the writes to make, or the error
\* raised by get_information, the unpacking, get_swagger_model or the
\* ['models']['Metadata'] subscript
GrabResourceBody(prs, path) ==
    LET info == GetInformation(prs, path)
        NoWrites(e, f) == [ok |-> FALSE, fetched |-> f, writes |-> <<>>, err |-> e]
    IN  IF ~info.ok THEN NoWrites("IndexError", FALSE)
        ELSE IF Len(info.val) # 2 THEN NoWrites("ValueError", FALSE)
        ELSE LET package == info.val[1]
                 resource_name == info.val[2]
                 got == GetSwaggerModel(prs, path, resource_name)
             IN  IF ~got.ok THEN NoWrites(got.err, TRUE)
                 ELSE IF resource_name = STR_METADATA /\ "Metadata" \notin DOMAIN got.doc.models
                      THEN NoWrites("KeyError", TRUE)
                      ELSE [ok |-> TRUE, fetched |-> TRUE,
                            writes |-> Writes(got.doc, package, resource_name), err |-> "none"]

(***************************************************************************)
(* Collaborators that live outside parsers.py                              *)
(***************************************************************************)
NoError == [type |-> "none", at |-> "none", path |-> NoStr]

\* Printer.raiseError(message): raises; the exception is the value
RaiseError(type, at, path) == [type |-> type, at |-> at, path |-> path]

\* Utils.get_version(token): the canonical version of a root document's token
GetVersion(token) == ReplaceDots(token)

\* TaskManager.start_task: registers the call and starts it in the background
TaskManagerStartTask(ts, path) ==
    Append(ts, [path |-> path, pc |-> "running", fetched |-> FALSE, writes |-> <<>>, wrote |-> 0,
                err |-> NoError])

\* TaskManager.wait_until_exit returns only when every task has completed
TaskManagerAllExited(ts) == \A t \in 1..Len(ts) : ts[t].pc \in {"done", "failed"}

\* the first failure a TaskManager has seen is the one it keeps
TaskManagerRecord(first, e) == IF first = NoError THEN e ELSE first

(***************************************************************************)
(* State                                                                   *)
(***************************************************************************)
VARIABLES
    args,       \* the arguments of SwaggerParserFactory.create
    env,        \* what the root locator answers (server or file system)
    parser,     \* the parser object: kind, url/path, apiversion, base_path
    pc,         \* where the caller is: new, config_error, idle, submitting, returned, raised
    run,        \* number of grab_all calls made so far
    data,       \* grab_all's local `data`: the root document
    idx,        \* position of grab_all's loop in data['apis'] (1-based)
    models,     \* grab_all's local `models`, the dict shared with the tasks
    tasks,      \* the TaskManager's tasks, in start order
    tmError,    \* the first failure the TaskManager has seen
    error,      \* the exception the caller got from the last call
    returned,   \* what each finished grab_all call gave the caller
    split,      \* the Metadata split on its own: input, heap and outputs
    info,       \* path_for_swagger_model and get_information on their own
    fetch,      \* the remote get_swagger_model on its own: requests and outcome
    apiDocsCalls \* number of get_api_docs calls made so far

vars == <<args, env, parser, pc, run, data, idx, models, tasks, tmError, error, returned, split,
          info, fetch, apiDocsCalls>>

EmptyDict == <<>>

NoDocs == [metadata |-> 0, global |-> 0, aggregate |-> 0]

NoSplit == [pc |-> "off", heap |-> <<>>, infos |-> 0, docs |-> NoDocs, muts |-> 0, last |-> "none"]

NoInfo == [pc |-> "off", package |-> NoStr, name |-> NoStr, path |-> NoStr, result |-> [ok |-> FALSE, val |-> <<>>]]

NoFetch == [pc |-> "off", net |-> <<>>, log |-> <<>>, err |-> "none"]

\* number of get_swagger_model calls made by the tasks of the current run
FetchCount == Cardinality({t \in 1..Len(tasks) : tasks[t].fetched})

(***************************************************************************)
(* SwaggerParserFactory.create                                             *)
(***************************************************************************)
\* `if path:` is true of a non-empty string
Truthy(o) == ~o.isNone /\ o.v # NoStr

\* the url tested before the path
SelectedUrlFirst(a) == IF Truthy(a.url) THEN "url" ELSE "file"

\* the class the factory picks: the path wins whenever there is one
Selected(a) == IF Truthy(a.path) THEN "file" ELSE "url"

Create ==
    /\ pc = "new"
    /\ IF Selected(args) = "file"
       THEN /\ parser' = SwaggerFileParser(StrOf(args.path), args.apiversion)
            /\ pc' = "idle"
            /\ error' = NoError
       ELSE IF args.apiversion.isNone
            THEN /\ parser' = NoParser
                 /\ pc' = "config_error"
                 /\ error' = RaiseError("ConfigurationError", "init", NoStr)
            ELSE /\ parser' = SwaggerURLParser(args.url, args.apiversion)
                 /\ pc' = "idle"
                 /\ error' = NoError
    /\ UNCHANGED <<args, env, run, data, idx, models, tasks, tmError, returned, split, info, fetch, apiDocsCalls>>

(***************************************************************************)
(* grab_all                                                                *)
(***************************************************************************)
\* get_api_docs of either transport: the JSON document or the error raised
GetApiDocs(prs, e) ==
    IF prs.kind = "url" /\ prs.url.isNone
    THEN [ok |-> FALSE, doc |-> EmptyRoot, err |-> RaiseError("RequestException", "get_api_docs", prs.schema_root)]
    ELSE IF e.status = "absent"
    THEN [ok |-> FALSE, doc |-> EmptyRoot, err |-> RaiseError("RetrievalError", "get_api_docs", prs.schema_root)]
    ELSE IF e.status = "unparsable"
    THEN [ok |-> FALSE, doc |-> EmptyRoot, err |-> RaiseError("ParseError", "get_api_docs", prs.schema_root)]
    ELSE [ok |-> TRUE, doc |-> e.doc, err |-> NoError]

\* the test of `apiVersion` left out
RootCheckApisOnly(d) ==
    IF ~d.has_apis THEN RaiseError("No apis information found in api-docs", "grab_all", NoStr)
    ELSE NoError

\* the two membership tests on the root document
RootCheck(d) ==
    IF ~d.has_apis THEN RaiseError("No apis information found in api-docs", "grab_all", NoStr)
    ELSE IF ~d.has_apiVersion THEN RaiseError("No api version found in api-docs", "grab_all", NoStr)
    ELSE NoError

\* the `is None` test left out: the root document's version always wins
ResolveVersionAlways(prs, d) == [prs EXCEPT !.apiversion = Some(GetVersion(d.apiVersion))]

\* if self.apiversion is None: self.apiversion = Utils.get_version(...)
ResolveVersion(prs, d) ==
    IF prs.apiversion.isNone
    THEN [prs EXCEPT !.apiversion = Some(GetVersion(d.apiVersion))]
    ELSE prs

\* the root document fetched once more for the tests on it
FetchRootTwice(prs, e, n) == [got |-> GetApiDocs(prs, e), calls |-> n + 2]

\* data = self.get_api_docs(): one call per grab_all
FetchRoot(prs, e, n) == [got |-> GetApiDocs(prs, e), calls |-> n + 1]

\* grab_all from its call to the creation of `models`
GrabAllBegin ==
    /\ pc \in {"idle", "returned", "raised"}
    /\ run < MaxRuns
    /\ run' = run + 1
    /\ apiDocsCalls' = FetchRoot(parser, env, apiDocsCalls).calls
    /\ LET got == FetchRoot(parser, env, apiDocsCalls).got
           chk == RootCheck(got.doc)
       IN  IF ~got.ok \/ chk # NoError
           THEN /\ pc' = "raised"
                /\ error' = IF ~got.ok THEN got.err ELSE chk
                /\ returned' = Append(returned, [ok |-> FALSE, map |-> EmptyDict])
                /\ UNCHANGED <<parser, data, idx, models, tasks, tmError>>
           ELSE /\ pc' = "submitting"
                /\ error' = NoError
                /\ parser' = ResolveVersion(parser, got.doc)
                /\ data' = got.doc
                /\ idx' = 1
                /\ models' = EmptyDict
                /\ tasks' = <<>>
                /\ tmError' = NoError
                /\ UNCHANGED returned
    /\ UNCHANGED <<args, env, split, info, fetch>>

\* the loop taken from the last ApiEntry to the first
StartTaskReversed ==
    /\ pc = "submitting"
    /\ idx <= Len(data.apis)
    /\ tasks' = TaskManagerStartTask(tasks, PathForSwaggerModel(parser, data.apis[Len(data.apis) - idx + 1]))
    /\ idx' = idx + 1
    /\ UNCHANGED <<args, env, parser, pc, run, data, models, tmError, error, returned, split, info, fetch, apiDocsCalls>>

\* one turn of the loop over data['apis']
StartTask ==
    /\ pc = "submitting"
    /\ idx <= Len(data.apis)
    /\ tasks' = TaskManagerStartTask(tasks, PathForSwaggerModel(parser, data.apis[idx]))
    /\ idx' = idx + 1
    /\ UNCHANGED <<args, env, parser, pc, run, data, models, tmError, error, returned, split, info, fetch, apiDocsCalls>>

\* the call of wait_until_exit left out
JoinReadyNoWait == idx > Len(data.apis)

\* the call of wait_until_exit may return once the loop is over
JoinReady == idx > Len(data.apis) /\ TaskManagerAllExited(tasks)

\* the exception of wait_until_exit caught and dropped
GrabAllJoinSwallow ==
    /\ pc = "submitting"
    /\ idx > Len(data.apis) /\ TaskManagerAllExited(tasks)
    /\ pc' = "returned"
    /\ error' = NoError
    /\ returned' = Append(returned, [ok |-> TRUE, map |-> models])
    /\ UNCHANGED <<args, env, parser, run, data, idx, models, tasks, tmError, split, info, fetch, apiDocsCalls>>

\* wait_until_exit, then `return models`
GrabAllJoin ==
    /\ pc = "submitting"
    /\ JoinReady
    /\ IF tmError = NoError
       THEN /\ pc' = "returned"
            /\ error' = NoError
            /\ returned' = Append(returned, [ok |-> TRUE, map |-> models])
       ELSE /\ pc' = "raised"
            /\ error' = tmError
            /\ returned' = Append(returned, [ok |-> FALSE, map |-> EmptyDict])
    /\ UNCHANGED <<args, env, parser, run, data, idx, models, tasks, tmError, split, info, fetch, apiDocsCalls>>

(***************************************************************************)
(* _grab_resource, run by a task                                           *)
(***************************************************************************)
\* from the call to the first write to `results`
TaskRun(t) ==
    /\ t \in 1..Len(tasks)
    /\ tasks[t].pc = "running"
    /\ LET body == GrabResourceBody(parser, tasks[t].path)
       IN  IF body.ok
           THEN /\ tasks' = [tasks EXCEPT ![t].pc = "writing", ![t].fetched = body.fetched,
                                          ![t].writes = body.writes]
                /\ UNCHANGED tmError
           ELSE LET e == RaiseError(body.err, "task", tasks[t].path)
                IN  /\ tasks' = [tasks EXCEPT ![t].pc = "failed", ![t].fetched = body.fetched,
                                              ![t].err = e]
                    /\ tmError' = TaskManagerRecord(tmError, e)
    /\ UNCHANGED <<args, env, parser, pc, run, data, idx, models, error, returned, split, info, fetch, apiDocsCalls>>

\* the dict rebuilt from the one key instead of updated
DictSetLost(d, key, doc) == key :> doc

\* results[key] = doc
DictSet(d, key, doc) == (key :> doc) @@ d

\* an insertion into the dict that is lost when another task is writing too
TaskWriteRacy(t) ==
    /\ t \in 1..Len(tasks)
    /\ tasks[t].pc = "writing"
    /\ LET w == Head(tasks[t].writes)
           rest == Tail(tasks[t].writes)
       IN  /\ models' = IF \E u \in 1..Len(tasks) : u # t /\ tasks[u].pc = "writing"
                         THEN models
                         ELSE DictSet(models, w.key, w.doc)
           /\ tasks' = [tasks EXCEPT ![t].writes = rest, ![t].wrote = @ + 1,
                                     ![t].pc = IF rest = <<>> THEN "done" ELSE "writing"]
    /\ UNCHANGED <<args, env, parser, pc, run, data, idx, tmError, error, returned, split, info, fetch, apiDocsCalls>>

\* one assignment to `results`
TaskWrite(t) ==
    /\ t \in 1..Len(tasks)
    /\ tasks[t].pc = "writing"
    /\ LET w == Head(tasks[t].writes)
           rest == Tail(tasks[t].writes)
       IN  /\ models' = DictSet(models, w.key, w.doc)
           /\ tasks' = [tasks EXCEPT ![t].writes = rest, ![t].wrote = @ + 1,
                                     ![t].pc = IF rest = <<>> THEN "done" ELSE "writing"]
    /\ UNCHANGED <<args, env, parser, pc, run, data, idx, tmError, error, returned, split, info, fetch, apiDocsCalls>>

\* between two grab_all calls the root document comes to announce another
\* apiVersion; the resources stay as they are
RootVersionChanges ==
    /\ pc \in {"returned", "raised"}
    /\ run < MaxRuns
    /\ env.status = "ok"
    /\ env.doc.has_apiVersion
    /\ env.doc.apiVersion = VERSION
    /\ env' = [env EXCEPT !.doc.apiVersion = VERSION_NEXT]
    /\ UNCHANGED <<args, parser, pc, run, data, idx, models, tasks, tmError, error, returned, split,
                   info, fetch, apiDocsCalls>>

Init ==
    /\ args \in CreateArgs
    /\ env \in RootAnswers
    /\ parser = NoParser
    /\ pc = "new"
    /\ run = 0
    /\ data = EmptyRoot
    /\ idx = 1
    /\ models = EmptyDict
    /\ tasks = <<>>
    /\ tmError = NoError
    /\ error = NoError
    /\ returned = <<>>
    /\ split = NoSplit
    /\ info = NoInfo
    /\ fetch = NoFetch
    /\ apiDocsCalls = 0

Next ==
    \/ Create
    \/ GrabAllBegin
    \/ StartTask
    \/ GrabAllJoin
    \/ \E t \in 1..MaxApis : TaskRun(t)
    \/ \E t \in 1..MaxApis : TaskWrite(t)
    \/ RootVersionChanges

Spec == Init /\ [][Next]_vars

TypeOK ==
    /\ pc \in {"new", "config_error", "idle", "submitting", "returned", "raised"}
    /\ run \in 0..MaxRuns
    /\ Len(tasks) <= MaxApis
    /\ Len(returned) <= run

(***************************************************************************)
(* Vocabulary of the properties                                            *)
(***************************************************************************)
Constructed == pc \notin {"new", "config_error"}

RunEnded == pc \in {"returned", "raised"}

Last(q) == q[Len(q)]

\* the root document can be had and holds both keys
RootUsable ==
    /\ ~(parser.kind = "url" /\ parser.url.isNone)
    /\ env.status = "ok"
    /\ env.doc.has_apis
    /\ env.doc.has_apiVersion

\* (package, resource name) of the i-th ApiEntry of the run's root document
InfoOf(i) == GetInformation(parser, PathForSwaggerModel(parser, data.apis[i])).val

NameOf(i) == InfoOf(i)[2]

PackageOf(i) == InfoOf(i)[1]

Entries == 1..Len(data.apis)

SplitKeys == {STR_METADATA, STR_GLOBALMETADATA, STR_AGGREGATEMETADATA}

MetadataListed == \E i \in Entries : NameOf(i) = STR_METADATA

\* the keys the task of the i-th ApiEntry writes
KeysOf(i) == IF NameOf(i) = STR_METADATA THEN SplitKeys ELSE {NameOf(i)}

\* no two ApiEntries with different paths write a common key
DisjointWriters ==
    \A i, j \in Entries :
        data.apis[i] # data.apis[j] => KeysOf(i) \cap KeysOf(j) = {}

(***************************************************************************)
(* C1                                                                      *)
(***************************************************************************)
\* C1: when the root document cannot be had or lacks `apis` or `apiVersion`,
\* no task is ever started, no resource is ever fetched, no map is ever
\* returned, and every grab_all call ends in an error raised before the loop.
C1_NoFetchWithoutRoot ==
    (Constructed /\ ~RootUsable) =>
        /\ tasks = <<>>
        /\ FetchCount = 0
        /\ pc # "submitting"
        /\ \A r \in 1..Len(returned) : ~returned[r].ok
        /\ run > 0 => (pc = "raised" /\ error.at \in {"get_api_docs", "grab_all"})

\* a root document that lists an ApiEntry but has no apiVersion: the call
\* has ended in an error with no task started
C1_Witness ==
    /\ pc = "raised"
    /\ env.status = "ok"
    /\ env.doc.has_apis
    /\ env.doc.apis # <<>>
    /\ ~env.doc.has_apiVersion
    /\ error.at = "grab_all"
    /\ tasks = <<>>

(***************************************************************************)
(* C2                                                                      *)
(***************************************************************************)
BothRunsReturned == Len(returned) >= 2 /\ returned[1].ok /\ returned[2].ok

\* C2 as stated: two successful runs against the same documents return equal
\* maps, whatever the ApiEntries and the interleaving.
C2_SameMapAnyInput == BothRunsReturned => returned[1].map = returned[2].map

\* C2 amended: two successful runs against the same documents return equal
\* maps for every interleaving, provided no two ApiEntries with different
\* paths write a common key.
C2_SameMapDisjointWriters ==
    (BothRunsReturned /\ DisjointWriters) => returned[1].map = returned[2].map

\* two runs over Metadata and another resource have both returned
C2_Witness ==
    /\ BothRunsReturned
    /\ DisjointWriters
    /\ Len(data.apis) = 2
    /\ Cardinality(DOMAIN returned[2].map) = 4

(***************************************************************************)
(* C5                                                                      *)
(***************************************************************************)
OnlyMetadataListed == Len(data.apis) = 1 /\ NameOf(1) = STR_METADATA

\* C5: after a successful run whose root document lists the one resource
\* Metadata, the map has exactly the keys Metadata, GlobalMetadata and
\* AggregateMetadata, the document under key k has models.Metadata.id = k,
\* and each document's package is the part of the ApiEntry path before the
\* last '/'.
C5_MetadataOnlyMap ==
    (pc = "returned" /\ OnlyMetadataListed) =>
        LET m == Last(returned).map
        IN  /\ DOMAIN m = SplitKeys
            /\ \A k \in SplitKeys :
                /\ m[k].models.Metadata.id = k
                /\ m[k].package \o <<"/">> \o STR_METADATA = data.apis[1]
            /\ \A k, l \in SplitKeys : m[k].package = m[l].package

C5_Witness ==
    /\ pc = "returned"
    /\ OnlyMetadataListed
    /\ DOMAIN Last(returned).map = SplitKeys

(***************************************************************************)
(* C7                                                                      *)
(***************************************************************************)
\* the map holds the name of entry i with the package of an entry of that name
StoredWithOwnPackage(m, i) ==
    /\ NameOf(i) \in DOMAIN m
    /\ \E j \in Entries : NameOf(j) = NameOf(i) /\ m[NameOf(i)].package = PackageOf(j)

\* C7 as stated: after a successful run every listed resource name other
\* than Metadata is a key of the map, with the package derived from the
\* fetch path of a resource of that name.
C7_OwnPackageAnyName ==
    pc = "returned" =>
        \A i \in Entries :
            NameOf(i) # STR_METADATA => StoredWithOwnPackage(Last(returned).map, i)

\* C7 amended: the same, for every listed name other than Metadata and, when
\* Metadata is listed in the run, other than GlobalMetadata and
\* AggregateMetadata.
C7_OwnPackageUnsplitName ==
    pc = "returned" =>
        \A i \in Entries :
            (NameOf(i) # STR_METADATA /\ ~(MetadataListed /\ NameOf(i) \in SplitKeys))
                => StoredWithOwnPackage(Last(returned).map, i)

\* a successful run over two ordinary resources of different packages
C7_Witness ==
    /\ pc = "returned"
    /\ \E i, j \in Entries :
        /\ NameOf(i) = STR_FOO
        /\ NameOf(j) = STR_GLOBALMETADATA
        /\ PackageOf(i) # PackageOf(j)
        /\ {NameOf(i), NameOf(j)} = DOMAIN Last(returned).map

(***************************************************************************)
(* C8                                                                      *)
(***************************************************************************)
\* C8 as stated: a successful run that lists no Metadata resource returns a
\* map with none of the keys Metadata, GlobalMetadata, AggregateMetadata.
C8_NoSplitKeys ==
    (pc = "returned" /\ ~MetadataListed) => DOMAIN Last(returned).map \cap SplitKeys = {}

\* C8 amended: a successful run that lists no Metadata resource returns a
\* map without the key Metadata, in which GlobalMetadata or AggregateMetadata
\* is a key only if an ApiEntry derives that very name.
C8_NoSplitKeysUnlessListed ==
    (pc = "returned" /\ ~MetadataListed) =>
        /\ STR_METADATA \notin DOMAIN Last(returned).map
        /\ \A k \in DOMAIN Last(returned).map \cap SplitKeys : \E i \in Entries : NameOf(i) = k

\* a successful run over ordinary resources only
C8_Witness ==
    /\ pc = "returned"
    /\ ~MetadataListed
    /\ Len(data.apis) = 2
    /\ NameOf(1) = STR_FOO
    /\ NameOf(2) = STR_FOO
    /\ PackageOf(1) # PackageOf(2)

(***************************************************************************)
(* C9                                                                      *)
(***************************************************************************)
Failed == {t \in 1..Len(tasks) : tasks[t].pc = "failed"}

\* C9: when a task of the run has raised and the call has ended, the caller
\* has an exception and no map, and the exception is the one of a failed
\* task, as that task raised it: the first the TaskManager saw.
C9_NoMapOnTaskError ==
    (RunEnded /\ Failed # {}) =>
        /\ pc = "raised"
        /\ ~Last(returned).ok
        /\ Last(returned).map = EmptyDict
        /\ error = tmError
        /\ \E t \in Failed : error = tasks[t].err

\* two tasks failed, the second-started one first, while the map was empty
C9_Witness ==
    /\ pc = "raised"
    /\ Len(tasks) = 2
    /\ Failed = {1, 2}
    /\ tasks[1].err # tasks[2].err
    /\ error = tasks[2].err

(***************************************************************************)
(* C10                                                                     *)
(***************************************************************************)
\* C10: when grab_all is past wait_until_exit (it has returned, or raised a
\* task's error), one task was started per ApiEntry and each has completed:
\* a task that did not raise itself has made all its writes; and while a
\* failure is recorded and some task is still at work the caller has
\* neither a result nor the error.
C10_JoinAfterAllTasks ==
    /\ (pc = "returned" \/ (pc = "raised" /\ error.at = "task")) =>
          /\ Len(tasks) = Len(data.apis)
          /\ \A t \in 1..Len(tasks) :
                \/ tasks[t].pc = "done" /\ tasks[t].writes = <<>>
                \/ tasks[t].pc = "failed" /\ tasks[t].err # NoError
    /\ (tmError # NoError /\ \E t \in 1..Len(tasks) : tasks[t].pc \in {"running", "writing"}) =>
          /\ pc = "submitting"
          /\ error = NoError

\* the first task failed, the second one went on to write its key, and only
\* then did the caller get the error
C10_Witness ==
    /\ pc = "raised"
    /\ error.at = "task"
    /\ Len(tasks) = 2
    /\ tasks[1].pc = "failed"
    /\ tasks[2].pc = "done"
    /\ models # EmptyDict

(***************************************************************************)
(* The Metadata branch of _grab_resource on its own, and what a caller may *)
(* later do to the documents it stored                                     *)
(***************************************************************************)
SP_OTHER == <<"/", "m", "e", "t", "a", "d", "a", "t", "a", "s">>

SP_AGGR == <<"/", "m">> \o SUB_AGGREGATE

SP_GLOB == <<"/", "m">> \o SUB_GLOBAL \o <<"/", "i", "d">>

SP_BOTH == SUB_GLOBAL \o SUB_AGGREGATE

SP_NEAR == SubSeq(SUB_AGGREGATE, 1, Len(SUB_AGGREGATE) - 1)

STR_X == <<"X">>

\* the entries a Metadata document's `apis` list is drawn from
SplitEntries == {[path |-> p, nickname |-> "get"] : p \in {SP_OTHER, SP_AGGR, SP_GLOB, SP_BOTH, SP_NEAR}}

\* the Metadata documents given to the split
SplitInputs ==
    {[models |-> [Metadata |-> [id |-> STR_METADATA]], apis |-> a] : a \in SeqUpTo(SplitEntries, MaxK)}

DocNames == {"metadata", "global", "aggregate"}

\* a task of a file parser has fetched a document named Metadata
InitSplit ==
    /\ args = [url |-> None, path |-> Some(ROOT_PATH), apiversion |-> None]
    /\ env = [status |-> "absent", doc |-> EmptyRoot]
    /\ parser = SwaggerFileParser(ROOT_PATH, None)
    /\ pc = "idle"
    /\ run = 0
    /\ data = EmptyRoot
    /\ idx = 1
    /\ models = EmptyDict
    /\ tasks = <<>>
    /\ tmError = NoError
    /\ error = NoError
    /\ returned = <<>>
    /\ info = NoInfo
    /\ fetch = NoFetch
    /\ apiDocsCalls = 0
    /\ \E infos \in SplitInputs :
        LET l == Load(<<>>, infos)
        IN  split = [pc |-> "fetched", heap |-> l.heap, infos |-> l.addr, docs |-> NoDocs,
                     muts |-> 0, last |-> "none"]

\* the Metadata branch: the copies, the loop and the three writes to `results`
SplitRun ==
    /\ split.pc = "fetched"
    /\ LET r == HeapSplit(split.heap, split.infos, PKG_A)
       IN  /\ split' = [split EXCEPT !.pc = "stored", !.heap = r.heap, !.docs = r.docs]
           /\ models' = DictSet(DictSet(DictSet(models,
                            STR_METADATA, Val(r.heap, r.docs.metadata)),
                            STR_GLOBALMETADATA, Val(r.heap, r.docs.global)),
                            STR_AGGREGATEMETADATA, Val(r.heap, r.docs.aggregate))
    /\ UNCHANGED <<args, env, parser, pc, run, data, idx, tasks, tmError, error, returned, info, fetch, apiDocsCalls>>

\* the caller's view of `results` after a mutation of the heap
ModelsView(h) ==
    DictSet(DictSet(DictSet(EmptyDict,
        STR_METADATA, Val(h, split.docs.metadata)),
        STR_GLOBALMETADATA, Val(h, split.docs.global)),
        STR_AGGREGATEMETADATA, Val(h, split.docs.aggregate))

Mutated(d, h) ==
    /\ split' = [split EXCEPT !.heap = h, !.muts = @ + 1, !.last = d]
    /\ models' = ModelsView(h)
    /\ UNCHANGED <<args, env, parser, pc, run, data, idx, tasks, tmError, error, returned, info, fetch, apiDocsCalls>>

\* results[d]['models']['Metadata']['id'] = 'X'
MutateModel(d) ==
    /\ split.pc = "stored"
    /\ split.muts < MaxMutations
    /\ Mutated(d, HeapSetMetadataId(split.heap, split.docs[d], STR_X))

\* results[d]['apis'].append({'path': 'X'})
MutateApis(d) ==
    /\ split.pc = "stored"
    /\ split.muts < MaxMutations
    /\ Mutated(d, HeapAppend(Append(split.heap, EntryCell(STR_X, "new")), split.docs[d], Len(split.heap) + 1))

\* results[d]['apis'][i]['path'] = 'X'
MutateEntry(d, i) ==
    /\ split.pc = "stored"
    /\ split.muts < MaxMutations
    /\ i \in 1..Len(split.heap[split.heap[split.docs[d]].apis].items)
    /\ Mutated(d, [split.heap EXCEPT ![split.heap[split.heap[split.docs[d]].apis].items[i]].path = STR_X])

NextSplit ==
    \/ SplitRun
    \/ \E d \in DocNames : MutateModel(d)
    \/ \E d \in DocNames : MutateApis(d)
    \/ \E d \in DocNames, i \in 1..(MaxK + MaxMutations) : MutateEntry(d, i)

SpecSplit == InitSplit /\ [][NextSplit]_vars

\* the split has been made and nothing has touched its documents since
FreshSplit == split.pc = "stored" /\ split.muts = 0

Original == Val(split.heap, split.infos)

Derived(d) == Val(split.heap, split.docs[d])

Occurs(e, q) == \E i \in 1..Len(q) : q[i] = e

\* the split agrees with the fetched document outside `apis`, the model id
\* and the package
SplitKeepsRest ==
    FreshSplit => \A d \in DocNames : Derived(d).models.Metadata.id \in SplitKeys /\ Derived(d).package = PKG_A

(***************************************************************************)
(* C3                                                                      *)
(***************************************************************************)
\* C3: after the split every entry of the original `apis` list whose path
\* contains /aggregatemetadatas is in the AggregateMetadata list only;
\* otherwise, if its path contains /globalmetadatas, in the GlobalMetadata
\* list only; otherwise in the Metadata list only.
C3_RoutedByPath ==
    FreshSplit =>
        \A i \in 1..Len(Original.apis) :
            LET e == Original.apis[i]
                where == {d \in DocNames : Occurs(e, Derived(d).apis)}
            IN  IF Contains(e.path, SUB_AGGREGATE) THEN where = {"aggregate"}
                ELSE IF Contains(e.path, SUB_GLOBAL) THEN where = {"global"}
                ELSE where = {"metadata"}

\* a split of a list with an entry whose path contains both substrings and
\* an entry whose path is one character short of /aggregatemetadatas
C3_Witness ==
    /\ FreshSplit
    /\ \E i, j \in 1..Len(Original.apis) :
        /\ Original.apis[i].path = SP_BOTH
        /\ Original.apis[j].path = SP_NEAR
    /\ Len(Derived("aggregate").apis) = 1
    /\ Len(Derived("metadata").apis) = 1

(***************************************************************************)
(* C4                                                                      *)
(***************************************************************************)
SeqToBag(q) == [e \in {q[i] : i \in 1..Len(q)} |-> Cardinality({i \in 1..Len(q) : q[i] = e})]

\* C4: after the split of a document with K entries the three lists hold K
\* entries together, and as bags they add up to the original list: each
\* original entry is there as often as in the original and nothing else is.
C4_ExactPartition ==
    FreshSplit =>
        /\ Len(Derived("metadata").apis) + Len(Derived("global").apis) + Len(Derived("aggregate").apis)
              = Len(Original.apis)
        /\ SeqToBag(Derived("metadata").apis) (+) SeqToBag(Derived("global").apis)
              (+) SeqToBag(Derived("aggregate").apis) = SeqToBag(Original.apis)

\* a split of three entries that fills all three lists
C4_Witness ==
    /\ FreshSplit
    /\ Len(Original.apis) = 3
    /\ \A d \in DocNames : Len(Derived(d).apis) = 1

(***************************************************************************)
(* C6                                                                      *)
(***************************************************************************)
\* the cells a document is made of
CellsOf(h, d) ==
    {d, h[d].apis, h[d].models, h[h[d].models].Metadata}
        \cup {h[h[d].apis].items[i] : i \in 1..Len(h[h[d].apis].items)}

AllDocs == DocNames \cup {"original"}

AddrOf(d) == IF d = "original" THEN split.infos ELSE split.docs[d]

\* no cell belongs to two of the four documents
NoSharedCells ==
    split.pc = "stored" =>
        \A d1, d2 \in AllDocs :
            d1 # d2 => CellsOf(split.heap, AddrOf(d1)) \cap CellsOf(split.heap, AddrOf(d2)) = {}

\* a mutation of one derived document leaves the values of the others alone
MutationIsLocal ==
    (split.pc = "stored" /\ split'.muts = split.muts + 1) =>
        \A d \in AllDocs \ {split'.last} :
            Val(split'.heap, AddrOf(d)) = Val(split.heap, AddrOf(d))

\* C6: the three derived documents and the original have no cell in common,
\* and a later mutation of one derived document (the id of its model, its
\* apis list, one entry of that list) changes the value of no other of them.
C6_NoSharedStructure == []NoSharedCells /\ [][MutationIsLocal]_vars

\* the GlobalMetadata document has been mutated after a split of two entries
C6_Witness ==
    /\ split.pc = "stored"
    /\ split.muts > 0
    /\ split.last = "global"
    /\ Derived("global").models.Metadata.id = STR_X
    /\ Derived("metadata").models.Metadata.id = STR_METADATA
    /\ Len(Original.apis) >= 2

(***************************************************************************)
(* C11                                                                     *)
(***************************************************************************)
\* the writes the task of the t-th start_task call has to make
OwnWrites(t) == GrabResourceBody(parser, tasks[t].path).writes

OwnKeys(t) == {OwnWrites(t)[k].key : k \in 1..Len(OwnWrites(t))}

\* the tasks of the run write pairwise distinct keys
DistinctKeys == \A t, u \in 1..Len(tasks) : t # u => OwnKeys(t) \cap OwnKeys(u) = {}

\* C11: when the tasks of a run write pairwise distinct keys and
\* wait_until_exit has returned without error, every key of every task is
\* in the map with the value that task wrote, and the map has no other key.
C11_NoLostInsertion ==
    (pc = "returned" /\ DistinctKeys) =>
        LET m == Last(returned).map
        IN  /\ \A t \in 1..Len(tasks) : \A k \in 1..Len(OwnWrites(t)) :
                  /\ OwnWrites(t)[k].key \in DOMAIN m
                  /\ m[OwnWrites(t)[k].key] = OwnWrites(t)[k].doc
            /\ DOMAIN m = UNION {OwnKeys(t) : t \in 1..Len(tasks)}

\* two tasks have written one key each and the call has returned
C11_Witness ==
    /\ pc = "returned"
    /\ Len(tasks) = 2
    /\ DistinctKeys
    /\ DOMAIN Last(returned).map = {STR_FOO, STR_AGGREGATEMETADATA}

(***************************************************************************)
(* path_for_swagger_model followed by get_information, on their own        *)
(***************************************************************************)
STR_V1 == <<"/", "v", "1">>

URL_SCHEMA == <<"h">> \o SCHEMA_FILEPATH \o <<"/">>

\* the parsers the round trip is tried on: remote ones over two base URLs,
\* one of which holds the schema marker, and local ones over three roots
PathArgs ==
    {[url |-> Some(u), path |-> None, apiversion |-> Some(VERSION)] : u \in {URL_BASE, URL_SCHEMA}}
    \cup {[url |-> None, path |-> Some(r), apiversion |-> None] : r \in {ROOT_PATH, PKG_A, STR_V1}}

\* packages and names of the ApiEntry paths <package>/<name>
PathPackages == {STR_V1, PKG_A, STR_V1 \o ROOT_PATH, SCHEMA_FILEPATH, NoStr}

PathNames == {STR_FOO, STR_METADATA, <<"x">>}

InitPath ==
    /\ args \in PathArgs
    /\ env = [status |-> "absent", doc |-> EmptyRoot]
    /\ parser = NoParser
    /\ pc = "new"
    /\ run = 0
    /\ data = EmptyRoot
    /\ idx = 1
    /\ models = EmptyDict
    /\ tasks = <<>>
    /\ tmError = NoError
    /\ error = NoError
    /\ returned = <<>>
    /\ split = NoSplit
    /\ fetch = NoFetch
    /\ apiDocsCalls = 0
    /\ \E k \in PathPackages, n \in PathNames :
        info = [pc |-> "pending", package |-> k, name |-> n, path |-> NoStr,
                result |-> [ok |-> FALSE, val |-> <<>>]]

\* path = self.path_for_swagger_model(api['path']), then, in the task,
\* self.get_information(path)
Derive ==
    /\ pc = "idle"
    /\ info.pc = "pending"
    /\ LET path == PathForSwaggerModel(parser, info.package \o <<"/">> \o info.name)
       IN  info' = [info EXCEPT !.pc = "derived", !.path = path, !.result = GetInformation(parser, path)]
    /\ UNCHANGED <<args, env, parser, pc, run, data, idx, models, tasks, tmError, error, returned, split,
                   fetch, apiDocsCalls>>

NextPath ==
    \/ Create
    \/ Derive

SpecPath == InitPath /\ [][NextPath]_vars

\* the marker get_information splits on, and the prefix put before the
\* ApiEntry path
MarkerOf(prs) == IF prs.kind = "url" THEN SCHEMA_FILEPATH ELSE prs.path

\* the worked case: root /x and ApiEntry path /v1/foo give /x/v1/foo and
\* (/v1, foo)
PathExample ==
    (info.pc = "derived" /\ parser.kind = "file" /\ parser.path = ROOT_PATH
        /\ info.package = STR_V1 /\ info.name = STR_FOO) =>
        /\ info.path = ROOT_PATH \o STR_V1 \o <<"/">> \o STR_FOO
        /\ info.result = [ok |-> TRUE, val |-> <<STR_V1, STR_FOO>>]

\* the round trip where the marker occurs once in the locator
PathRoundTripOneMarker ==
    (info.pc = "derived" /\ Len(PySplit(info.path, MarkerOf(parser))) = 2) =>
        info.result = [ok |-> TRUE, val |-> <<info.package, info.name>>]

(***************************************************************************)
(* C12                                                                     *)
(***************************************************************************)
\* C12: for both transports, every base URL or root path and every ApiEntry
\* path <package>/<name>, get_information of the locator computed by
\* path_for_swagger_model is the two-element list (package, name).
C12_RoundTrip ==
    info.pc = "derived" => info.result = [ok |-> TRUE, val |-> <<info.package, info.name>>]

(***************************************************************************)
(* C13                                                                     *)
(***************************************************************************)
\* a version given to the constructor is still the parser's version
ExplicitVersionKept == (Constructed /\ ~args.apiversion.isNone) => parser.apiversion = args.apiversion

\* no task exists while the parser has no version
VersionBeforeTasks == tasks # <<>> => ~parser.apiversion.isNone

\* what the constructor arguments alone put before an ApiEntry path
PrefixFromArgs ==
    IF parser.kind = "file" THEN StrOf(args.path)
    ELSE StrOf(args.url) \o <<"V">> \o ReplaceDots(StrOf(args.apiversion)) \o SCHEMA_FILEPATH

\* C13 as stated: an explicit version is never overwritten, the version is
\* fixed before any task is started, and when none was supplied the version
\* resolved from apiVersion is part of every per-resource path of the run.
C13_ResolvedVersionInPaths ==
    /\ ExplicitVersionKept
    /\ VersionBeforeTasks
    /\ (Constructed /\ args.apiversion.isNone) =>
          \A t \in 1..Len(tasks) : Contains(tasks[t].path, parser.apiversion.v)

\* the version changes only in grab_all, before its loop, when there was none
VersionSetOnce ==
    (pc # "new" /\ parser'.apiversion # parser.apiversion) =>
        /\ parser.apiversion.isNone
        /\ pc' = "submitting"
        /\ tasks' = <<>>
        /\ parser'.apiversion = Some(GetVersion(data'.apiVersion))

\* C13 amended: an explicit version is never overwritten; when none was
\* supplied the version is resolved from apiVersion once, in grab_all before
\* any task is started, and never changed again; the per-resource paths do
\* not depend on it: each is the ApiEntry path behind a prefix fixed by the
\* constructor arguments.
C13_VersionFixedOnce ==
    /\ [](ExplicitVersionKept /\ VersionBeforeTasks
            /\ \A t \in 1..Len(tasks) : tasks[t].path = PrefixFromArgs \o data.apis[t])
    /\ [][VersionSetOnce]_vars

\* a local parser built without a version has resolved one and run a task
C13_Witness ==
    /\ pc = "returned"
    /\ args.apiversion.isNone
    /\ parser.apiversion = Some(ReplaceDots(VERSION))
    /\ Len(tasks) >= 1

(***************************************************************************)
(* C14                                                                     *)
(***************************************************************************)
RemoteAsked == ~Truthy(args.path)

\* what holds of the constructors: a remote parser is refused when the
\* version is None, and a local parser built without a version has one as
\* soon as grab_all is past the root document
ConstructionWithoutVersion ==
    /\ (pc # "new" /\ RemoteAsked /\ args.apiversion.isNone) =>
          (pc = "config_error" /\ error.type = "ConfigurationError" /\ parser = NoParser)
    /\ (pc # "new" /\ ~RemoteAsked) => (pc # "config_error" /\ parser.kind = "file")
    /\ (~RemoteAsked /\ pc \in {"submitting", "returned"}) => ~parser.apiversion.isNone

\* C14: a remote parser asked for without a non-empty version is refused
\* with a configuration error, so no remote parser exists without a usable
\* version; a local parser asked for without a version is built, and a
\* later run resolves its version from the root document.
C14_RemoteNeedsVersion ==
    /\ ConstructionWithoutVersion
    /\ (pc # "new" /\ RemoteAsked /\ ~Truthy(args.apiversion)) =>
          (pc = "config_error" /\ error.type = "ConfigurationError")
    /\ parser.kind = "url" => Truthy(parser.apiversion)

(***************************************************************************)
(* C15                                                                     *)
(***************************************************************************)
PathGiven == Truthy(args.path)

UrlGiven == Truthy(args.url)

\* no grab_all call on the parser has returned a map
NeverUsable == pc # "returned" /\ \A r \in 1..Len(returned) : ~returned[r].ok

\* C15 as stated: a local parser is made only for a path without a url, a
\* remote one only for a url without a path, and with both or neither no
\* usable parser is made.
C15_ExactlyOneLocator ==
    pc # "new" =>
        /\ parser.kind = "file" => (PathGiven /\ ~UrlGiven)
        /\ parser.kind = "url" => (UrlGiven /\ ~PathGiven)
        /\ (PathGiven = UrlGiven) => NeverUsable

\* C15 amended: the path wins: a local parser is made whenever a path is
\* given, with or without a url, and a remote one is made only without a
\* path; with neither, no usable parser is made.
C15_PathWins ==
    pc # "new" =>
        /\ PathGiven => parser.kind = "file"
        /\ parser.kind = "file" => PathGiven
        /\ parser.kind = "url" => ~PathGiven
        /\ (~PathGiven /\ ~UrlGiven) => NeverUsable

\* both a url and a path were given and the local parser made has returned a map
C15_Witness ==
    /\ PathGiven
    /\ UrlGiven
    /\ parser.kind = "file"
    /\ pc = "returned"
    /\ Last(returned).map # EmptyDict

(***************************************************************************)
(* SwaggerURLParser.get_swagger_model on its own: the requests it issues   *)
(***************************************************************************)
\* what one requests.get can come to: an exception, or a response with a
\* status code and a body that parses as JSON or does not
Outcomes ==
    {[exc |-> x, status |-> "none", json |-> FALSE] : x \in {"SSLError", "ConnectionError", "Timeout"}}
    \cup {[exc |-> "none", status |-> "200", json |-> j] : j \in BOOLEAN}
    \cup {[exc |-> "none", status |-> c, json |-> TRUE] : c \in {"404", "500"}}

SSLFailure == [exc |-> "SSLError", status |-> "none", json |-> FALSE]

GoodResponse == [exc |-> "none", status |-> "200", json |-> TRUE]

IsException(o) == o.exc # "none"

\* a handler that catches every exception of the first request
RetryableAny(o) == IsException(o)

\* except requests.exceptions.SSLError
Retryable(o) == o.exc = "SSLError"

InitFetch ==
    /\ args = [url |-> Some(URL_BASE), path |-> None, apiversion |-> Some(VERSION)]
    /\ env = [status |-> "absent", doc |-> EmptyRoot]
    /\ parser = SwaggerURLParser(Some(URL_BASE), Some(VERSION))
    /\ pc = "idle"
    /\ run = 0
    /\ data = EmptyRoot
    /\ idx = 1
    /\ models = EmptyDict
    /\ tasks = <<>>
    /\ tmError = NoError
    /\ error = NoError
    /\ returned = <<>>
    /\ split = NoSplit
    /\ info = NoInfo
    /\ apiDocsCalls = 0
    /\ \E o1 \in Outcomes, o2 \in Outcomes :
        fetch = [pc |-> "start", net |-> <<o1, o2>>, log |-> <<>>, err |-> "none"]

\* the request of the try block
FirstRequest ==
    /\ fetch.pc = "start"
    /\ LET o == fetch.net[1]
       IN  fetch' = [fetch EXCEPT
                        !.log = <<o>>,
                        !.pc = IF ~IsException(o) THEN "responded"
                               ELSE IF Retryable(o) THEN "retry" ELSE "raised",
                        !.err = IF IsException(o) /\ ~Retryable(o) THEN o.exc ELSE "none"]
    /\ UNCHANGED <<args, env, parser, pc, run, data, idx, models, tasks, tmError, error, returned, split,
                   info, apiDocsCalls>>

\* the request of the except block: nothing catches what it raises
SecondRequest ==
    /\ fetch.pc = "retry"
    /\ LET o == fetch.net[2]
       IN  fetch' = [fetch EXCEPT
                        !.log = Append(fetch.log, o),
                        !.pc = IF IsException(o) THEN "raised" ELSE "responded",
                        !.err = IF IsException(o) THEN o.exc ELSE "none"]
    /\ UNCHANGED <<args, env, parser, pc, run, data, idx, models, tasks, tmError, error, returned, split,
                   info, apiDocsCalls>>

\* the status test and the JSON parse on the response that was obtained
CheckResponse ==
    /\ fetch.pc = "responded"
    /\ LET r == fetch.log[Len(fetch.log)]
       IN  fetch' = IF r.status # "200" THEN [fetch EXCEPT !.pc = "raised", !.err = "HTTP"]
                    ELSE IF ~r.json THEN [fetch EXCEPT !.pc = "raised", !.err = "JSON"]
                    ELSE [fetch EXCEPT !.pc = "returned"]
    /\ UNCHANGED <<args, env, parser, pc, run, data, idx, models, tasks, tmError, error, returned, split,
                   info, apiDocsCalls>>

NextFetch ==
    \/ FirstRequest
    \/ SecondRequest
    \/ CheckResponse

SpecFetch == InitFetch /\ [][NextFetch]_vars

(***************************************************************************)
(* C16                                                                     *)
(***************************************************************************)
FetchEnded == fetch.pc \in {"returned", "raised"}

Requests == Len(fetch.log)

\* how the call ends when the request that counts comes to o
EndsAs(o) ==
    IF IsException(o) THEN fetch.pc = "raised" /\ fetch.err = o.exc
    ELSE IF o.status # "200" THEN fetch.pc = "raised" /\ fetch.err = "HTTP"
    ELSE IF ~o.json THEN fetch.pc = "raised" /\ fetch.err = "JSON"
    ELSE fetch.pc = "returned" /\ fetch.err = "none"

\* C16: the remote get_swagger_model issues at most two requests; it issues a
\* second one exactly when the first ended in an SSL failure; the call then
\* ends as the second request alone decides, so a retry that succeeds hides
\* the failure and a second SSL failure is raised; any other outcome of the
\* first request, an exception or a status, is never retried.
C16_SingleSSLRetry ==
    /\ Requests <= 2
    /\ \A i \in 1..Requests : fetch.log[i] = fetch.net[i]
    /\ Requests = 2 => fetch.log[1] = SSLFailure
    /\ FetchEnded =>
        /\ Requests >= 1
        /\ fetch.log[1] = SSLFailure => Requests = 2
        /\ fetch.log[1] # SSLFailure => Requests = 1
        /\ EndsAs(fetch.log[Requests])

\* an SSL failure of the first request, a retry that succeeded, a document returned
C16_Witness ==
    /\ fetch.pc = "returned"
    /\ fetch.log = <<SSLFailure, GoodResponse>>
    /\ fetch.err = "none"

(***************************************************************************)
(* C17                                                                     *)
(***************************************************************************)
\* the map of the run in progress holds nothing but what this run's tasks
\* have written: it is empty as long as none of them has written
RunMapFresh ==
    pc = "submitting" =>
        /\ (\A t \in 1..Len(tasks) : tasks[t].wrote = 0) => models = EmptyDict
        /\ DOMAIN models \subseteq UNION {KeysOf(t) : t \in {u \in 1..Len(tasks) : tasks[u].wrote > 0}}

\* every run has fetched the root document anew
RootFetchedPerRun == apiDocsCalls = run

\* the version of a run that was given none is the one of the root document
\* this run has fetched
VersionFromRunInputs ==
    (pc = "submitting" /\ args.apiversion.isNone) =>
        parser.apiversion = Some(GetVersion(data.apiVersion))

\* C17: no state survives from one run to the next: each grab_all starts from
\* a new empty map that holds only what its own tasks write, fetches the root
\* document anew, and derives its version from its own inputs, unaffected by
\* the version an earlier run has resolved.
C17_NoStateSurvives ==
    /\ RunMapFresh
    /\ RootFetchedPerRun
    /\ VersionFromRunInputs

(***************************************************************************)
(* C18                                                                     *)
(***************************************************************************)
\* the t-th task started carries the path computed from the t-th ApiEntry
TaskOfEntry(t) == tasks[t].path = PathForSwaggerModel(parser, data.apis[t])

\* C18: grab_all starts one task per ApiEntry of the root document, in the
\* order of `apis`: the t-th start_task carries the path of the t-th entry;
\* the wait begins only when a task has been started for every entry; and all
\* tasks write into the one map of the run, which is the map returned.
C18_OneTaskPerEntryInOrder ==
    Constructed =>
        /\ \A t \in 1..Len(tasks) : TaskOfEntry(t)
        /\ pc = "submitting" => Len(tasks) = idx - 1
        /\ RunEnded => Len(tasks) = Len(data.apis)
        /\ pc = "returned" =>
            /\ Last(returned).map = models
            /\ \A t \in 1..Len(tasks) : KeysOf(t) \subseteq DOMAIN models

\* a run over two entries of different paths has returned
C18_Witness ==
    /\ pc = "returned"
    /\ Len(tasks) = 2
    /\ tasks[1].path # tasks[2].path
    /\ DOMAIN models = KeysOf(1) \cup KeysOf(2)

(***************************************************************************)
(* C19                                                                     *)
(***************************************************************************)
\* the entries of q that occur in r, in the order of q
KeptIn(q, r) ==
    LET In(e) == Occurs(e, r)
    IN  SelectSeq(q, In)

\* C19: the split is a stable partition: each of the three derived `apis`
\* lists is the original list with the entries of the other two lists left
\* out, so its entries stand in the order of the original list and each one
\* is equal in content to an original entry.
C19_StablePartition ==
    FreshSplit => \A d \in DocNames : Derived(d).apis = KeptIn(Original.apis, Derived(d).apis)

\* a split that has put two different entries into one list while another
\* list got an entry that stood between them in the original
C19_Witness ==
    /\ FreshSplit
    /\ Len(Original.apis) = 3
    /\ Original.apis[1].path = SP_OTHER
    /\ Original.apis[2].path = SP_AGGR
    /\ Original.apis[3].path = SP_NEAR
    /\ Len(Derived("metadata").apis) = 2
    /\ Derived("metadata").apis[1] # Derived("metadata").apis[2]

(***************************************************************************)
(* C20                                                                     *)
(***************************************************************************)
\* the fetch of task t's document succeeds
FetchSucceeds(t) == Lookup(parser, tasks[t].path).status = "ok"

\* task t has written, or has writes ready to be made
HasWrites(t) == tasks[t].wrote > 0 \/ tasks[t].writes # <<>>

\* C20: in a run the root document is fetched once, before any task exists;
\* a task has writes only after its own fetch has succeeded, and a task whose
\* fetch fails writes nothing; a Metadata task starts writing only with the
\* whole split at hand: three documents under the three split keys, each
\* with its package set.
C20_WriteAfterOwnFetch ==
    Constructed =>
        /\ apiDocsCalls = run
        /\ tasks # <<>> => apiDocsCalls >= 1
        /\ \A t \in 1..Len(tasks) :
            /\ HasWrites(t) => (tasks[t].fetched /\ FetchSucceeds(t))
            /\ ~FetchSucceeds(t) => (tasks[t].wrote = 0 /\ tasks[t].pc \in {"running", "failed"})
            /\ tasks[t].pc = "failed" => ~HasWrites(t)
            /\ (NameOf(t) = STR_METADATA /\ HasWrites(t)) =>
                /\ tasks[t].wrote + Len(tasks[t].writes) = Cardinality(SplitKeys)
                /\ \A k \in 1..Len(tasks[t].writes) :
                    /\ tasks[t].writes[k].key \in SplitKeys
                    /\ "package" \in DOMAIN tasks[t].writes[k].doc

\* a run in which one task's fetch has failed and a Metadata task has
\* written its three keys
C20_Witness ==
    /\ apiDocsCalls = 1
    /\ \E t, u \in 1..Len(tasks) :
        /\ tasks[t].pc = "failed"
        /\ tasks[t].fetched
        /\ ~FetchSucceeds(t)
        /\ NameOf(u) = STR_METADATA
        /\ tasks[u].pc = "done"
        /\ tasks[u].wrote = Cardinality(SplitKeys)
        /\ SplitKeys \subseteq DOMAIN models

====
